---- MODULE Spec2Model ----
(***************************************************************************)
(* Model of the data-proc-pipeline-app gateway:                            *)
(*   - lambda/authorizer.ts : the REQUEST Lambda authorizer (Cognito JWT)  *)
(*   - lambda/data-proc.ts  : the ingestion handler (text lines -> Dynamo) *)
(*   - lib/data-proc-pipeline-app-stack.ts : the API Gateway wiring        *)
(*     (POST /dataproc, CUSTOM authorization, resultsCacheTtl 0).          *)
(* Requests are handled one after the other.                               *)
(***************************************************************************)
EXTENDS Integers, Sequences, FiniteSets, TLC

VARIABLES
    now,            \* wall clock, in token-expiry units
    ingestions,     \* number of times the gateway invoked the ingestion Lambda
    prevAllowed,    \* identity source of the previous request if it was allowed
    gwPc,           \* API Gateway position for the current request
    event,          \* the authorizer event of the current request
    authResult,     \* what the authorizer gave the gateway for this request
    authSource,     \* "lambda" (handler invoked) | "cache" | "none"
    authAt,         \* clock value when the decision was obtained
    authCache,      \* gateway's authorizer result cache (identity source -> entry)
    authLog,        \* console output of the authorizer handler, this request
    procPc,         \* ingestion handler position: idle | writing | done
    procEvent,      \* the ingestion handler's event (body, isBase64Encoded)
    payload,        \* the text the client sent, when the event carries one
    processedData,  \* result of processTextFile
    idx,            \* loop position in processedData (1-based)
    putLog,         \* dynamo.put calls issued for this request, with outcome
    response,       \* ingestion handler's response
    table,          \* DynamoDB table contents (set of items)
    nextId          \* source of fresh uuidv4 values

vars == <<now, ingestions, prevAllowed, gwPc, event, authResult, authSource, authAt, authCache,
          authLog, procPc, procEvent, payload, processedData, idx, putLog, response,
          table, nextId>>

----------------------------------------------------------------------------
(* Bounds of the model *)

MaxTime == 1
MaxIngestions == 1
MaxBodyLen == 1
MaxTextLen == 4

----------------------------------------------------------------------------
(* Generic helpers *)

RECURSIVE SeqsUpTo(_, _)
SeqsUpTo(S, n) ==
    IF n = 0 THEN {<<>>}
    ELSE LET shorter == SeqsUpTo(S, n - 1)
         IN  shorter \cup {Append(s, x) : s \in {t \in shorter : Len(t) = n - 1}, x \in S}

Range(s) == {s[i] : i \in DOMAIN s}

----------------------------------------------------------------------------
(* Authorizer: lambda/authorizer.ts *)

SP == "<sp>"       \* one space character inside a header value

\* Bearer credentials that requests may carry.
Tokens == {"tok.alice", "tok.bob", "tok.nosub", "tok.badsig", "tok.wrongaud",
           "tok.stale", "garbage"}

\* What each credential is: structure, signature, issuer/audience/token_use,
\* expiry and the payload claims it carries.
Jwt(authToken) ==
    CASE authToken = "tok.alice" ->
           [wellFormed |-> TRUE, sigOk |-> TRUE, issAudOk |-> TRUE, exp |-> 0,
            sub |-> "alice", email |-> [isString |-> TRUE, val |-> "alice@example.com"],
            role |-> [isString |-> TRUE, val |-> "ADMIN"]]
      [] authToken = "tok.bob" ->
           [wellFormed |-> TRUE, sigOk |-> TRUE, issAudOk |-> TRUE, exp |-> MaxTime + 1,
            sub |-> "bob", email |-> [isString |-> FALSE, val |-> "undefined"],
            role |-> [isString |-> FALSE, val |-> "number"]]
      [] authToken = "tok.nosub" ->
           [wellFormed |-> TRUE, sigOk |-> TRUE, issAudOk |-> TRUE, exp |-> MaxTime + 1,
            sub |-> "", email |-> [isString |-> FALSE, val |-> "undefined"],
            role |-> [isString |-> TRUE, val |-> "ADMIN"]]
      [] authToken = "tok.badsig" ->
           [wellFormed |-> TRUE, sigOk |-> FALSE, issAudOk |-> TRUE, exp |-> MaxTime + 1,
            sub |-> "alice", email |-> [isString |-> FALSE, val |-> "undefined"],
            role |-> [isString |-> TRUE, val |-> "ADMIN"]]
      [] authToken = "tok.wrongaud" ->
           [wellFormed |-> TRUE, sigOk |-> TRUE, issAudOk |-> FALSE, exp |-> MaxTime + 1,
            sub |-> "mallory", email |-> [isString |-> FALSE, val |-> "undefined"],
            role |-> [isString |-> TRUE, val |-> "ADMIN"]]
      [] authToken = "tok.stale" ->
           [wellFormed |-> TRUE, sigOk |-> TRUE, issAudOk |-> TRUE, exp |-> 0 - 1,
            sub |-> "dave", email |-> [isString |-> FALSE, val |-> "undefined"],
            role |-> [isString |-> TRUE, val |-> "ADMIN"]]
      [] OTHER ->
           [wellFormed |-> FALSE, sigOk |-> FALSE, issAudOk |-> FALSE, exp |-> 0 - 1,
            sub |-> "", email |-> [isString |-> FALSE, val |-> "undefined"],
            role |-> [isString |-> FALSE, val |-> "undefined"]]

\* cognitoJwtVerifier.verify(authToken) at time t: resolves with the payload
\* when the token is well formed, correctly signed, from the configured pool
\* and client, and not expired; rejects otherwise.
cognitoJwtVerifier_verify(authToken, t) ==
    LET jwt == Jwt(authToken)
    IN  jwt.wellFormed /\ jwt.sigOk /\ jwt.issAudOk /\ t <= jwt.exp

verifyTokenAndGenerateEffect_roleGuest(authToken, t) ==
    IF cognitoJwtVerifier_verify(authToken, t)
    THEN LET decodedJWT == Jwt(authToken)
         IN  [effect  |-> "Allow",
              context |-> [userId |-> decodedJWT.sub,
                           email  |-> IF decodedJWT.email.isString
                                      THEN decodedJWT.email.val ELSE "",
                           role   |-> IF decodedJWT.role.isString
                                      THEN decodedJWT.role.val ELSE "GUEST"],
              log     |-> <<[level |-> "log", msg |-> "Token is valid:",
                             data |-> {decodedJWT.sub}]>>]
    ELSE [effect  |-> "Deny",
          context |-> [userId |-> "anonymous", role |-> "GUEST"],
          log     |-> <<[level |-> "error", msg |-> "Token verification failed:",
                         data |-> {"JwtError"}]>>]

verifyTokenAndGenerateEffect_denyKeepsSubject(authToken, t) ==
    IF cognitoJwtVerifier_verify(authToken, t)
    THEN LET decodedJWT == Jwt(authToken)
         IN  [effect  |-> "Allow",
              context |-> [userId |-> decodedJWT.sub,
                           email  |-> IF decodedJWT.email.isString
                                      THEN decodedJWT.email.val ELSE "",
                           role   |-> IF decodedJWT.role.isString
                                      THEN decodedJWT.role.val ELSE "USER"],
              log     |-> <<[level |-> "log", msg |-> "Token is valid:",
                             data |-> {decodedJWT.sub}]>>]
    ELSE [effect  |-> "Deny",
          context |-> [userId |-> IF Jwt(authToken).wellFormed /\ Jwt(authToken).sub # ""
                                  THEN Jwt(authToken).sub ELSE "anonymous",
                       role   |-> "GUEST"],
          log     |-> <<[level |-> "error", msg |-> "Token verification failed:",
                         data |-> {"JwtError"}]>>]

\* verifyTokenAndGenerateEffect: 'Allow' with the identity context of the
\* decoded token, or 'Deny' with the anonymous context when verify rejects.
verifyTokenAndGenerateEffect(authToken, t) ==
    IF cognitoJwtVerifier_verify(authToken, t)
    THEN LET decodedJWT == Jwt(authToken)
         IN  [effect  |-> "Allow",
              context |-> [userId |-> decodedJWT.sub,
                           email  |-> IF decodedJWT.email.isString
                                      THEN decodedJWT.email.val ELSE "",
                           role   |-> IF decodedJWT.role.isString
                                      THEN decodedJWT.role.val ELSE "USER"],
              log     |-> <<[level |-> "log", msg |-> "Token is valid:",
                             data |-> {decodedJWT.sub}]>>]
    ELSE [effect  |-> "Deny",
          context |-> [userId |-> "anonymous", role |-> "GUEST"],
          log     |-> <<[level |-> "error", msg |-> "Token verification failed:",
                         data |-> {"JwtError"}]>>]

generatePolicy_noPrincipalCheck(principalId, effect, resource) ==
    IF effect = "" \/ resource = ""
    THEN [threw |-> TRUE]
    ELSE [threw |-> FALSE,
          doc   |-> [Version   |-> "2012-10-17",
                     Statement |-> <<[Action   |-> "execute-api:Invoke",
                                      Effect   |-> effect,
                                      Resource |-> resource]>>]]

generatePolicy_noResourceCheck(principalId, effect, resource) ==
    IF principalId = "" \/ effect = ""
    THEN [threw |-> TRUE]
    ELSE [threw |-> FALSE,
          doc   |-> [Version   |-> "2012-10-17",
                     Statement |-> <<[Action   |-> "execute-api:Invoke",
                                      Effect   |-> effect,
                                      Resource |-> resource]>>]]

\* generatePolicy: throws on a falsy (empty) principalId, effect or resource,
\* otherwise a one-statement policy for that resource.
generatePolicy(principalId, effect, resource) ==
    IF principalId = "" \/ effect = "" \/ resource = ""
    THEN [threw |-> TRUE]
    ELSE [threw |-> FALSE,
          doc   |-> [Version   |-> "2012-10-17",
                     Statement |-> <<[Action   |-> "execute-api:Invoke",
                                      Effect   |-> effect,
                                      Resource |-> resource]>>]]

\* String.prototype.split(' ') on a header value given as a sequence of
\* words and SP symbols: the fields between consecutive spaces ("" between
\* two adjacent spaces, or after a trailing one).
RECURSIVE SplitFrom(_, _, _, _)
SplitFrom(s, i, cur, acc) ==
    IF i > Len(s) THEN Append(acc, cur)
    ELSE IF s[i] = SP THEN SplitFrom(s, i + 1, "", Append(acc, cur))
    ELSE SplitFrom(s, i + 1, s[i], acc)

split(s) == SplitFrom(s, 1, "", <<>>)

ExtractAuthToken_requiresBearer(ev) ==
    IF ~ev.hasHeaders THEN <<>>
    ELSE IF "authorization" \notin DOMAIN ev.headers THEN <<>>
    ELSE LET fields == split(ev.headers["authorization"])
         IN  IF Len(fields) >= 2 /\ fields[1] = "Bearer" THEN <<fields[2]>> ELSE <<>>

\* event.headers?.['authorization']?.split(' ')[1] : <<>> stands for
\* undefined, <<f>> for the string f.
ExtractAuthToken(ev) ==
    IF ~ev.hasHeaders THEN <<>>
    ELSE IF "authorization" \notin DOMAIN ev.headers THEN <<>>
    ELSE LET fields == split(ev.headers["authorization"])
         IN  IF Len(fields) >= 2 THEN <<fields[2]>> ELSE <<>>

\* !authToken
TokenMissing(tokOpt) == tokOpt = <<>> \/ tokOpt[1] = ""

EventLogEntry(ev) ==
    [level |-> "log", msg |-> "Event =>",
     data  |-> IF ev.hasHeaders
               THEN UNION {Range(ev.headers[h]) : h \in DOMAIN ev.headers} \ {SP, ""}
               ELSE {}]

handler_missingTokenDenies(ev, t) ==
    LET tokOpt == ExtractAuthToken(ev)
        log0   == <<EventLogEntry(ev)>>
    IN  IF TokenMissing(tokOpt)
        THEN LET pol == generatePolicy("anonymous", "Deny", ev.methodArn)
             IN  IF pol.threw
                 THEN [kind |-> "thrown", message |-> "Unauthorized", log |-> log0]
                 ELSE [kind |-> "returned",
                       response |-> [principalId |-> "anonymous",
                                     policyDocument |-> pol.doc,
                                     context |-> [userId |-> "anonymous", role |-> "GUEST"]],
                       log |-> log0]
        ELSE LET v   == verifyTokenAndGenerateEffect(tokOpt[1], t)
                 pol == generatePolicy(v.context.userId, v.effect, ev.methodArn)
             IN  IF pol.threw
                 THEN [kind |-> "thrown", message |-> "Unauthorized",
                       log  |-> log0 \o v.log \o
                                <<[level |-> "error", msg |-> "Token verification failed:",
                                   data |-> {"Error"}]>>]
                 ELSE [kind |-> "returned",
                       response |-> [principalId    |-> v.context.userId,
                                     policyDocument |-> pol.doc,
                                     context        |-> v.context],
                       log  |-> log0 \o v.log \o
                                <<[level |-> "log", msg |-> "Generated Authorizer Response:",
                                   data |-> {v.context.userId, v.effect}]>>]

\* handler (authorizer): the outcome of one invocation at time t, with the
\* console output it produced.
handler(ev, t) ==
    LET tokOpt == ExtractAuthToken(ev)
        log0   == <<EventLogEntry(ev)>>
    IN  IF TokenMissing(tokOpt)
        THEN [kind |-> "thrown", message |-> "Unauthorized",
              log  |-> Append(log0, [level |-> "error",
                                     msg |-> "No auth token found in request.",
                                     data |-> {}])]
        ELSE LET v   == verifyTokenAndGenerateEffect(tokOpt[1], t)
                 pol == generatePolicy(v.context.userId, v.effect, ev.methodArn)
             IN  IF pol.threw
                 THEN [kind |-> "thrown", message |-> "Unauthorized",
                       log  |-> log0 \o v.log \o
                                <<[level |-> "error", msg |-> "Token verification failed:",
                                   data |-> {"Error"}]>>]
                 ELSE [kind |-> "returned",
                       response |-> [principalId    |-> v.context.userId,
                                     policyDocument |-> pol.doc,
                                     context        |-> v.context],
                       log  |-> log0 \o v.log \o
                                <<[level |-> "log", msg |-> "Generated Authorizer Response:",
                                   data |-> {v.context.userId, v.effect}]>>]

----------------------------------------------------------------------------
(* Ingestion: lambda/data-proc.ts.  Strings are sequences of code points,  *)
(* buffers are sequences of bytes.                                         *)

LF == 10
EqualsSign == 61
ReplacementChar == 65533

\* Buffer.from(string) : UTF-8 encoding of one code point / of a string.
Utf8EncodeChar(c) ==
    IF c < 128 THEN <<c>>
    ELSE IF c < 2048 THEN <<192 + (c \div 64), 128 + (c % 64)>>
    ELSE <<224 + (c \div 4096), 128 + ((c \div 64) % 64), 128 + (c % 64)>>

RECURSIVE Utf8Encode(_)
Utf8Encode(str) ==
    IF str = <<>> THEN <<>> ELSE Utf8EncodeChar(Head(str)) \o Utf8Encode(Tail(str))

\* Buffer.prototype.toString('utf-8'): well-formed sequences give their code
\* point, every maximal ill-formed subpart gives U+FFFD.
ContinuationsNeeded(b) ==
    IF b < 128 THEN 0
    ELSE IF b >= 194 /\ b <= 223 THEN 1
    ELSE IF b >= 224 /\ b <= 239 THEN 2
    ELSE IF b >= 240 /\ b <= 244 THEN 3
    ELSE 0 - 1

SecondByteOk(lead, b) ==
    CASE lead = 224 -> b >= 160 /\ b <= 191
      [] lead = 237 -> b >= 128 /\ b <= 159
      [] lead = 240 -> b >= 144 /\ b <= 191
      [] lead = 244 -> b >= 128 /\ b <= 143
      [] OTHER      -> b >= 128 /\ b <= 191

RECURSIVE ContinuationRun(_, _, _, _)
\* number of acceptable continuation bytes following the lead at position i
ContinuationRun(buf, i, j, need) ==
    IF j > need \/ i + j > Len(buf) THEN j - 1
    ELSE IF (IF j = 1 THEN SecondByteOk(buf[i], buf[i + j])
                      ELSE buf[i + j] >= 128 /\ buf[i + j] <= 191)
         THEN ContinuationRun(buf, i, j + 1, need)
         ELSE j - 1

LeadBits(b, need) ==
    CASE need = 1 -> b - 192
      [] need = 2 -> b - 224
      [] OTHER    -> b - 240

RECURSIVE CodePoint(_, _, _, _)
CodePoint(buf, i, j, acc) ==
    IF j = 0 THEN acc ELSE CodePoint(buf, i + 1, j - 1, acc * 64 + (buf[i] - 128))

RECURSIVE Utf8DecodeFrom(_, _)
Utf8DecodeFrom(buf, i) ==
    IF i > Len(buf) THEN <<>>
    ELSE LET need == ContinuationsNeeded(buf[i])
         IN  IF need = 0 THEN <<buf[i]>> \o Utf8DecodeFrom(buf, i + 1)
             ELSE IF need < 0 THEN <<ReplacementChar>> \o Utf8DecodeFrom(buf, i + 1)
             ELSE LET got == ContinuationRun(buf, i, 1, need)
                  IN  IF got = need
                      THEN <<CodePoint(buf, i + 1, need, LeadBits(buf[i], need))>>
                           \o Utf8DecodeFrom(buf, i + need + 1)
                      ELSE <<ReplacementChar>> \o Utf8DecodeFrom(buf, i + got + 1)

toString_utf8(buf) == Utf8DecodeFrom(buf, 1)

\* The base64 alphabet: value of a character (64 = not a base64 character).
\* '-' and '_' (URL-safe alphabet) are accepted by the decoder.
unbase64(c) ==
    IF c >= 65 /\ c <= 90 THEN c - 65
    ELSE IF c >= 97 /\ c <= 122 THEN c - 97 + 26
    ELSE IF c >= 48 /\ c <= 57 THEN c - 48 + 52
    ELSE IF c = 43 \/ c = 45 THEN 62
    ELSE IF c = 47 \/ c = 95 THEN 63
    ELSE 64

Base64Char(v) ==
    IF v < 26 THEN 65 + v
    ELSE IF v < 52 THEN 97 + (v - 26)
    ELSE IF v < 62 THEN 48 + (v - 52)
    ELSE IF v = 62 THEN 43
    ELSE 47

\* Buffer.from(str, 'base64') reads the legal characters up to the first
\* '=': characters outside the alphabet are skipped, never rejected.
RECURSIVE Sextets(_, _)
Sextets(str, i) ==
    IF i > Len(str) \/ str[i] = EqualsSign THEN <<>>
    ELSE IF unbase64(str[i]) < 64 THEN <<unbase64(str[i])>> \o Sextets(str, i + 1)
    ELSE Sextets(str, i + 1)

RECURSIVE PackSextets(_)
\* 4 sextets -> 3 bytes; a tail of 3 -> 2 bytes, of 2 -> 1 byte, of 1 -> none
PackSextets(sx) ==
    IF Len(sx) < 2 THEN <<>>
    ELSE LET b1 == (sx[1] * 4) + (sx[2] \div 16)
         IN  IF Len(sx) = 2 THEN <<b1>>
             ELSE LET b2 == ((sx[2] % 16) * 16) + (sx[3] \div 4)
                  IN  IF Len(sx) = 3 THEN <<b1, b2>>
                      ELSE <<b1, b2, ((sx[3] % 4) * 64) + sx[4]>>
                           \o PackSextets(SubSeq(sx, 5, Len(sx)))

BufferFromBase64(str) == PackSextets(Sextets(str, 1))

\* JavaScript WhiteSpace and LineTerminator code points (String.prototype.trim)
IsWhiteSpace(c) ==
    c \in {9, 10, 11, 12, 13, 32, 160, 5760, 8232, 8233, 8239, 8287, 12288, 65279}
    \/ (c >= 8192 /\ c <= 8202)

RECURSIVE TrimStart(_)
TrimStart(s) == IF s # <<>> /\ IsWhiteSpace(Head(s)) THEN TrimStart(Tail(s)) ELSE s

RECURSIVE TrimEnd(_)
TrimEnd(s) ==
    IF s # <<>> /\ IsWhiteSpace(s[Len(s)]) THEN TrimEnd(SubSeq(s, 1, Len(s) - 1)) ELSE s

trim_startOnly(s) == TrimStart(s)

\* String.prototype.trim
trim(s) == TrimEnd(TrimStart(s))

\* fileContent.split('\n')
RECURSIVE SplitLinesFrom(_, _, _, _)
SplitLinesFrom(s, i, cur, acc) ==
    IF i > Len(s) THEN Append(acc, cur)
    ELSE IF s[i] = LF THEN SplitLinesFrom(s, i + 1, <<>>, Append(acc, cur))
    ELSE SplitLinesFrom(s, i + 1, Append(cur, s[i]), acc)

splitLines(s) == SplitLinesFrom(s, 1, <<>>, <<>>)

FilterNonEmpty_keepsAll(ls) == ls

\* filter(line => line.length > 0)
RECURSIVE FilterNonEmpty(_)
FilterNonEmpty(ls) ==
    IF ls = <<>> THEN <<>>
    ELSE IF Len(Head(ls)) > 0 THEN <<Head(ls)>> \o FilterNonEmpty(Tail(ls))
    ELSE FilterNonEmpty(Tail(ls))

\* the contents processTextFile keeps: trimmed, non-empty, in input order
ProcessedLines(fileContent) ==
    LET lines == [k \in DOMAIN splitLines(fileContent) |-> trim(splitLines(fileContent)[k])]
    IN  FilterNonEmpty(lines)

processTextFile_sameId(fileContent, firstId) ==
    LET kept == ProcessedLines(fileContent)
    IN  [k \in DOMAIN kept |-> [id |-> firstId, content |-> kept[k]]]

\* processTextFile: one {id, content} per kept line; uuidv4() is modelled as
\* the next unused identifier after `firstId`.
processTextFile(fileContent, firstId) ==
    LET kept == ProcessedLines(fileContent)
    IN  [k \in DOMAIN kept |-> [id |-> firstId + k - 1, content |-> kept[k]]]

DecodeBody_ignoresFlag(ev) ==
    IF ~ev.body.present THEN [threw |-> TRUE]
    ELSE [threw |-> FALSE, fileContent |-> toString_utf8(Utf8Encode(ev.body.chars))]

\* lines 25-32 of the handler: the decoded text, or a thrown TypeError when
\* event.body is null/undefined.
DecodeBody(ev) ==
    IF ~ev.body.present THEN [threw |-> TRUE]
    ELSE [threw |-> FALSE,
          fileContent |-> toString_utf8(IF ev.isBase64Encoded
                                        THEN BufferFromBase64(ev.body.chars)
                                        ELSE Utf8Encode(ev.body.chars))]

\* Buffer.prototype.toString('base64'): what a client does to frame a body.
RECURSIVE Base64Encode(_)
Base64Encode(buf) ==
    IF buf = <<>> THEN <<>>
    ELSE LET c1 == Base64Char(buf[1] \div 4)
         IN  IF Len(buf) = 1
             THEN <<c1, Base64Char((buf[1] % 4) * 16), EqualsSign, EqualsSign>>
             ELSE LET c2 == Base64Char(((buf[1] % 4) * 16) + (buf[2] \div 16))
                  IN  IF Len(buf) = 2
                      THEN <<c1, c2, Base64Char((buf[2] % 16) * 4), EqualsSign>>
                      ELSE <<c1, c2,
                             Base64Char(((buf[2] % 16) * 4) + (buf[3] \div 64)),
                             Base64Char(buf[3] % 64)>>
                           \o Base64Encode(SubSeq(buf, 4, Len(buf)))

----------------------------------------------------------------------------
(* Inputs *)

\* characters of the enumerated request bodies: "\n", " " and "a"
TextAlphabet == {LF, 32, 97}

Texts == SeqsUpTo(TextAlphabet, MaxBodyLen)

\* "a\n!\n\n  \n" (two lines, then blank ones), "a\n!\na" (three lines) and
\* "a!a" ("!" is not a base64 character)
ScenarioBodies == {<<97, LF, 33, LF, LF, 32, 32, LF>>, <<97, LF, 33, LF, 97>>, <<97, 33, 97>>}

ProcEventOf(b, f) == [body |-> [present |-> TRUE, chars |-> b], isBase64Encoded |-> f]

\* binaryMediaTypes: ['text/plain']: the gateway hands a text/plain body to
\* the Lambda base64-encoded, with isBase64Encoded set; any other body goes
\* through as it is
Framed(t) == ProcEventOf(Base64Encode(Utf8Encode(t)), TRUE)
Unframed(t) == ProcEventOf(t, FALSE)

\* what reaches the ingestion handler: a client text, unframed or framed by
\* the gateway; a body flagged as base64 that nobody encoded; no body at all
SubmissionsOf(texts) ==
    {[payload |-> <<t>>, ev |-> Unframed(t)] : t \in texts}
    \cup {[payload |-> <<t>>, ev |-> Framed(t)] : t \in texts}

Submissions ==
    SubmissionsOf(Texts \cup ScenarioBodies)
    \cup {[payload |-> <<>>, ev |-> ProcEventOf(b, TRUE)] : b \in Texts \cup ScenarioBodies}
    \cup {[payload |-> <<>>,
           ev |-> [body |-> [present |-> FALSE, chars |-> <<>>], isBase64Encoded |-> f]] :
            f \in BOOLEAN}

ProcEvents == {sub.ev : sub \in Submissions}

ArnProd == "arn:aws:execute-api:prod/POST/dataproc"
ArnTest == "arn:aws:execute-api:test-invoke-stage/POST/dataproc"
MethodArns == {"", ArnProd, ArnTest}

HeaderValues ==
    {<<"Bearer", SP, tok>> : tok \in Tokens}
    \cup {<<"Basic", SP, "tok.bob">>, <<"tok.bob">>, <<"Bearer", SP>>,
          <<"Bearer", SP, SP, "tok.bob">>, <<SP, "tok.badsig">>}

HeaderMaps ==
    {[h \in {"authorization"} |-> v] : v \in HeaderValues}
    \cup {[h \in {"Authorization"} |-> <<"Bearer", SP, "tok.bob">>], <<>>}
    \cup {[h \in {"authorization", "x-api-key"} |->
              IF h = "authorization" THEN <<"Bearer", SP, "tok.stale">> ELSE <<"tok.bob">>]}

AuthEvents ==
    {[hasHeaders |-> TRUE, headers |-> hm, methodArn |-> arn] :
        hm \in HeaderMaps, arn \in MethodArns}
    \cup {[hasHeaders |-> FALSE, headers |-> <<>>, methodArn |-> arn] : arn \in MethodArns}

PutOutcomes == {"ok", "transient", "permanent"}

----------------------------------------------------------------------------
(* API Gateway wiring: lib/data-proc-pipeline-app-stack.ts *)

ResultsCacheTtl_cached == MaxTime

\* resultsCacheTtl: cdk.Duration.seconds(0)
ResultsCacheTtl == 0

MethodAuthorizationType_none == "NONE"

\* authorizationType of POST /dataproc
MethodAuthorizationType == "CUSTOM"

\* identitySources: the authorization header (looked up case-insensitively)
IdentitySource(ev) ==
    IF ~ev.hasHeaders THEN <<>>
    ELSE IF "authorization" \in DOMAIN ev.headers THEN ev.headers["authorization"]
    ELSE IF "Authorization" \in DOMAIN ev.headers THEN ev.headers["Authorization"]
    ELSE <<>>

\* the gateway lets the call through when the policy it was given allows
\* execute-api:Invoke on the method being invoked
PolicyAllows(res, ev) ==
    /\ res.kind = "returned"
    /\ \E k \in DOMAIN res.response.policyDocument.Statement :
          LET st == res.response.policyDocument.Statement[k]
          IN  st.Effect = "Allow" /\ st.Action = "execute-api:Invoke"
              /\ st.Resource = ev.methodArn

NoEvent == [hasHeaders |-> FALSE, headers |-> <<>>, methodArn |-> "none"]
NoResult == [kind |-> "none"]
NoProcEvent == [body |-> [present |-> FALSE, chars |-> <<>>], isBase64Encoded |-> FALSE]
NoPayload == <<>>
NoResponse == [statusCode |-> 0, body |-> [none |-> ""]]
OkResponse ==
    [statusCode |-> 200, body |-> [message |-> "File processed and data stored successfully!"]]
ErrorResponse ==
    [statusCode |-> 500, body |-> [error |-> "Failed to process the file"]]

Init ==
    /\ now = 0
    /\ ingestions = 0
    /\ prevAllowed = <<>>
    /\ gwPc = "idle"
    /\ event = NoEvent
    /\ authResult = NoResult
    /\ authSource = "none"
    /\ authAt = 0
    /\ authCache = {}
    /\ authLog = <<>>
    /\ procPc = "idle"
    /\ procEvent = NoProcEvent
    /\ payload = NoPayload
    /\ processedData = <<>>
    /\ idx = 1
    /\ putLog = <<>>
    /\ response = NoResponse
    /\ table = {}
    /\ nextId = 1

\* time passes; the clock is read only when the gateway authorizes, so it is
\* enough to let it advance while a request waits for that
Tick ==
    /\ gwPc = "received"
    /\ now < MaxTime
    /\ now' = now + 1
    /\ UNCHANGED <<ingestions, prevAllowed, gwPc, event, authResult, authSource, authAt, authCache,
                   authLog, procPc, procEvent, payload, processedData, idx, putLog, response,
                   table, nextId>>

\* a client request reaches POST /dataproc
Request ==
    /\ gwPc = "idle"
    /\ \E ev \in AuthEvents : event' = ev
    /\ gwPc' = "received"
    /\ UNCHANGED <<now, ingestions, prevAllowed, authResult, authSource, authAt,
                   authCache, authLog, procPc, procEvent, payload, processedData, idx, putLog,
                   response, table, nextId>>

\* the request is over: nothing of it is kept but the cache, the table and
\* the note of whether its credential was allowed
EndOfRequest ==
    /\ prevAllowed' = IF PolicyAllows(authResult, event) THEN IdentitySource(event) ELSE <<>>
    /\ gwPc' = "idle"
    /\ event' = NoEvent
    /\ authResult' = NoResult
    /\ authSource' = "none"
    /\ authAt' = 0
    /\ authLog' = <<>>
    /\ procPc' = "idle"
    /\ procEvent' = NoProcEvent
    /\ payload' = NoPayload
    /\ processedData' = <<>>
    /\ idx' = 1
    /\ putLog' = <<>>
    /\ response' = NoResponse

\* the gateway obtains the authorization decision: from its result cache
\* while an entry for the identity source is younger than the TTL, otherwise
\* by invoking the authorizer Lambda
GatewayAuthorize ==
    /\ gwPc = "received"
    /\ MethodAuthorizationType = "CUSTOM"
    /\ LET key  == IdentitySource(event)
           hits == {e \in authCache : e.key = key /\ now - e.at < ResultsCacheTtl}
       IN  IF hits # {}
           THEN /\ authResult' = (CHOOSE e \in hits : TRUE).result
                /\ authSource' = "cache"
                /\ authLog' = <<>>
                /\ authCache' = authCache
           ELSE LET r   == handler(event, now)
                    res == IF r.kind = "returned"
                           THEN [kind |-> "returned", response |-> r.response]
                           ELSE [kind |-> "thrown", message |-> r.message]
                IN  /\ authResult' = res
                    /\ authSource' = "lambda"
                    /\ authLog' = r.log
                    /\ authCache' =
                         IF ResultsCacheTtl > 0 /\ r.kind = "returned"
                         THEN {e \in authCache : e.key # key}
                              \cup {[key |-> key, result |-> res, at |-> now]}
                         ELSE authCache
    /\ authAt' = now
    /\ gwPc' = "authorized"
    /\ UNCHANGED <<now, ingestions, prevAllowed, event, procPc, procEvent, payload, processedData, idx, putLog,
                   response, table, nextId>>

\* 401 (authorizer threw 'Unauthorized') or 403 (no Allow for this method):
\* the integration is not invoked
GatewayReject ==
    /\ gwPc = "authorized"
    /\ ~PolicyAllows(authResult, event)
    /\ EndOfRequest
    /\ UNCHANGED <<now, ingestions, authCache, table, nextId>>

\* the gateway may invoke the Lambda integration of POST /dataproc
IntegrationEnabled ==
    IF MethodAuthorizationType = "CUSTOM"
    THEN gwPc = "authorized" /\ PolicyAllows(authResult, event)
    ELSE gwPc = "received"

StartIngestion_noCatch(pe) ==
    LET d == DecodeBody(pe)
    IN  /\ IF d.threw
           THEN /\ processedData' = <<>>
                /\ nextId' = nextId
                /\ response' = NoResponse
                /\ procPc' = "thrown"
           ELSE /\ processedData' = processTextFile(d.fileContent, nextId)
                /\ nextId' = nextId + Len(ProcessedLines(d.fileContent))
                /\ response' = NoResponse
                /\ procPc' = "writing"
        /\ idx' = 1

\* ingestion handler, up to the start of the write loop (lines 22-37): decode
\* the body and build the items; a throw lands in the catch (500)
StartIngestion(pe) ==
    LET d == DecodeBody(pe)
    IN  /\ IF d.threw
           THEN /\ processedData' = <<>>
                /\ nextId' = nextId
                /\ response' = ErrorResponse
                /\ procPc' = "done"
           ELSE /\ processedData' = processTextFile(d.fileContent, nextId)
                /\ nextId' = nextId + Len(ProcessedLines(d.fileContent))
                /\ response' = NoResponse
                /\ procPc' = "writing"
        /\ idx' = 1

\* the gateway invokes the ingestion Lambda with the request's body
ProcStart ==
    /\ IntegrationEnabled
    /\ procPc = "idle"
    /\ ingestions < MaxIngestions
    /\ ingestions' = ingestions + 1
    /\ \E sub \in Submissions :
          /\ procEvent' = sub.ev
          /\ payload' = sub.payload
          /\ StartIngestion(sub.ev)
    /\ gwPc' = "integration"
    /\ UNCHANGED <<now, prevAllowed, event, authResult, authSource, authAt, authCache,
                   authLog, putLog, table>>

ProcPut_continueOnFailure ==
    /\ procPc = "writing"
    /\ idx <= Len(processedData)
    /\ \E outcome \in PutOutcomes :
          /\ putLog' = Append(putLog, [idx |-> idx, item |-> processedData[idx],
                                       outcome |-> outcome])
          /\ table' = IF outcome = "ok" THEN table \cup {processedData[idx]} ELSE table
          /\ idx' = idx + 1
          /\ UNCHANGED <<procPc, response>>
    /\ UNCHANGED <<now, ingestions, prevAllowed, gwPc, event, authResult, authSource, authAt, authCache,
                   authLog, procEvent, payload, processedData, nextId>>

ProcPut_retryOnFailure ==
    /\ procPc = "writing"
    /\ idx <= Len(processedData)
    /\ \E outcome \in PutOutcomes :
          /\ putLog' = Append(putLog, [idx |-> idx, item |-> processedData[idx],
                                       outcome |-> outcome])
          /\ IF outcome = "ok"
             THEN /\ table' = table \cup {processedData[idx]}
                  /\ idx' = idx + 1
                  /\ UNCHANGED <<procPc, response>>
             ELSE IF Len(putLog) < 2 * Len(processedData) + 4
             THEN UNCHANGED <<table, idx, procPc, response>>
             ELSE /\ procPc' = "done"
                  /\ response' = ErrorResponse
                  /\ UNCHANGED <<table, idx>>
    /\ UNCHANGED <<now, ingestions, prevAllowed, gwPc, event, authResult, authSource, authAt, authCache,
                   authLog, procEvent, payload, processedData, nextId>>

ProcPut_partialSuccess ==
    /\ procPc = "writing"
    /\ idx <= Len(processedData)
    /\ \E outcome \in PutOutcomes :
          /\ putLog' = Append(putLog, [idx |-> idx, item |-> processedData[idx],
                                       outcome |-> outcome])
          /\ IF outcome = "ok"
             THEN /\ table' = table \cup {processedData[idx]}
                  /\ idx' = idx + 1
                  /\ UNCHANGED <<procPc, response>>
             ELSE /\ procPc' = "done"
                  /\ response' = IF idx > 1 THEN OkResponse ELSE ErrorResponse
                  /\ UNCHANGED <<table, idx>>
    /\ UNCHANGED <<now, ingestions, prevAllowed, gwPc, event, authResult, authSource, authAt, authCache,
                   authLog, procEvent, payload, processedData, nextId>>

ProcPut_rollbackOnFailure ==
    /\ procPc = "writing"
    /\ idx <= Len(processedData)
    /\ \E outcome \in PutOutcomes :
          /\ putLog' = Append(putLog, [idx |-> idx, item |-> processedData[idx],
                                       outcome |-> outcome])
          /\ IF outcome = "ok"
             THEN /\ table' = table \cup {processedData[idx]}
                  /\ idx' = idx + 1
                  /\ UNCHANGED <<procPc, response>>
             ELSE /\ procPc' = "done"
                  /\ response' = ErrorResponse
                  /\ table' = table \ {processedData[k] : k \in 1..(idx - 1)}
                  /\ UNCHANGED idx
    /\ UNCHANGED <<now, ingestions, prevAllowed, gwPc, event, authResult, authSource, authAt, authCache,
                   authLog, procEvent, payload, processedData, nextId>>

\* one iteration of the write loop (lines 38-43): await dynamo.put(item); a
\* rejected put throws out of the loop into the catch (lines 49-55)
ProcPut ==
    /\ procPc = "writing"
    /\ idx <= Len(processedData)
    /\ \E outcome \in PutOutcomes :
          /\ putLog' = Append(putLog, [idx |-> idx, item |-> processedData[idx],
                                       outcome |-> outcome])
          /\ IF outcome = "ok"
             THEN /\ table' = table \cup {processedData[idx]}
                  /\ idx' = idx + 1
                  /\ UNCHANGED <<procPc, response>>
             ELSE /\ procPc' = "done"
                  /\ response' = ErrorResponse
                  /\ UNCHANGED <<table, idx>>
    /\ UNCHANGED <<now, ingestions, prevAllowed, gwPc, event, authResult, authSource, authAt, authCache,
                   authLog, procEvent, payload, processedData, nextId>>

\* the loop is over: lines 45-48
ProcReturn ==
    /\ procPc = "writing"
    /\ idx > Len(processedData)
    /\ response' = OkResponse
    /\ procPc' = "done"
    /\ UNCHANGED <<now, ingestions, prevAllowed, gwPc, event, authResult, authSource, authAt, authCache,
                   authLog, procEvent, payload, processedData, idx, putLog, table, nextId>>

\* the gateway passes the integration's response to the client
GatewayRespond ==
    /\ gwPc = "integration"
    /\ procPc = "done"
    /\ EndOfRequest
    /\ UNCHANGED <<now, ingestions, authCache, table, nextId>>

Next ==
    \/ Tick
    \/ Request
    \/ GatewayAuthorize
    \/ GatewayReject
    \/ ProcStart
    \/ ProcPut
    \/ ProcReturn
    \/ GatewayRespond

Spec == Init /\ [][Next]_vars

----------------------------------------------------------------------------
(* The decoding step of the ingestion handler on its own, over a larger    *)
(* set of texts: the handler invoked directly on one event.                *)

\* "\n", " ", "a" and "e with acute accent" (two bytes in UTF-8)
DecodeAlphabet == {LF, 32, 97, 233}

\* "hello\nworld\n\n  \n"
HelloWorld ==
    <<104, 101, 108, 108, 111, LF, 119, 111, 114, 108, 100, LF, LF, 32, 32, LF>>

DecodeTexts == SeqsUpTo(DecodeAlphabet, MaxTextLen) \cup {HelloWorld}

DecodeSubmissions ==
    SubmissionsOf(DecodeTexts)
    \cup {[payload |-> <<>>,
           ev |-> [body |-> [present |-> FALSE, chars |-> <<>>], isBase64Encoded |-> f]] :
            f \in BOOLEAN}

DecodeInit ==
    /\ now = 0
    /\ ingestions = 0
    /\ prevAllowed = <<>>
    /\ gwPc = "idle"
    /\ event = NoEvent
    /\ authResult = NoResult
    /\ authSource = "none"
    /\ authAt = 0
    /\ authCache = {}
    /\ authLog = <<>>
    /\ procPc = "idle"
    /\ \E sub \in DecodeSubmissions : procEvent = sub.ev /\ payload = sub.payload
    /\ processedData = <<>>
    /\ idx = 1
    /\ putLog = <<>>
    /\ response = NoResponse
    /\ table = {}
    /\ nextId = 1

\* lines 22-37 of the handler applied to the event
Decode ==
    /\ procPc = "idle"
    /\ StartIngestion(procEvent)
    /\ UNCHANGED <<now, ingestions, prevAllowed, gwPc, event, authResult, authSource, authAt,
                   authCache, authLog, procEvent, payload, putLog, table>>

DecodeNext == Decode

SpecDecode == DecodeInit /\ [][DecodeNext]_vars

----------------------------------------------------------------------------
(* Vocabulary of the properties *)

\* the authorizer has answered for the current request
AuthDone == gwPc \in {"authorized", "integration"}

\* the credential the handler extracts from the current request, if any
CredentialPresent == ~TokenMissing(ExtractAuthToken(event))
Credential == ExtractAuthToken(event)[1]

\* the verifier's verdict on the presented credential when the decision was made
CredentialAccepted == CredentialPresent /\ cognitoJwtVerifier_verify(Credential, authAt)
CredentialRejected == CredentialPresent /\ ~cognitoJwtVerifier_verify(Credential, authAt)

DecisionReturned == AuthDone /\ authResult.kind = "returned"
TheStatement == authResult.response.policyDocument.Statement[1]

ReturnedDenyAnonymous ==
    /\ authResult.kind = "returned"
    /\ TheStatement.Effect = "Deny"
    /\ authResult.response.principalId = "anonymous"
    /\ authResult.response.context.role = "GUEST"

ReturnedAllowForSubject ==
    /\ authResult.kind = "returned"
    /\ TheStatement.Effect = "Allow"
    /\ authResult.response.principalId = Jwt(Credential).sub
    /\ authResult.response.context.role =
          (IF Jwt(Credential).role.isString THEN Jwt(Credential).role.val ELSE "USER")

\* put calls issued for the record at position k of the current request
PutsOf(k) == {n \in DOMAIN putLog : putLog[n].idx = k}
FailedPuts == {n \in DOMAIN putLog : putLog[n].outcome # "ok"}

\* RFC 4648 base64: groups of four alphabet characters, the last group
\* possibly ending in one or two '='
IsBase64Alphabet(c) ==
    (c >= 65 /\ c <= 90) \/ (c >= 97 /\ c <= 122) \/ (c >= 48 /\ c <= 57)
    \/ c = 43 \/ c = 47

IsValidBase64(str) ==
    /\ Len(str) % 4 = 0
    /\ \A i \in DOMAIN str :
          \/ IsBase64Alphabet(str[i])
          \/ /\ str[i] = EqualsSign
             /\ i >= Len(str) - 1
             /\ \A j \in (i + 1)..Len(str) : str[j] = EqualsSign

\* the payload of the current ingestion cannot be decoded
Undecodable(pe) ==
    \/ ~pe.body.present
    \/ pe.isBase64Encoded /\ ~IsValidBase64(pe.body.chars)

----------------------------------------------------------------------------
(* Properties *)

C3_Original ==
    (AuthDone /\ authSource = "lambda" /\ (~CredentialPresent \/ CredentialRejected))
    => ReturnedDenyAnonymous

\* C3 (amended): a request without credential makes the handler throw
\* 'Unauthorized' (no decision is returned); a malformed or invalid credential
\* on a non-empty method ARN is never thrown, it yields a returned Deny.
C3_MissingThrowsInvalidDenies ==
    /\ (AuthDone /\ authSource = "lambda" /\ ~CredentialPresent)
       => (authResult.kind = "thrown" /\ authResult.message = "Unauthorized")
    /\ (AuthDone /\ authSource = "lambda" /\ CredentialRejected /\ event.methodArn # "")
       => (authResult.kind = "returned" /\ TheStatement.Effect = "Deny")

\* a request with no authorization header at all ended in the thrown error
C3_Witness ==
    /\ AuthDone /\ authSource = "lambda"
    /\ event.hasHeaders /\ DOMAIN event.headers = {}
    /\ event.methodArn # ""
    /\ authResult.kind = "thrown"

C5_DecisionBoundToResource ==
    DecisionReturned
    => /\ Len(authResult.response.policyDocument.Statement) = 1
       /\ TheStatement.Action = "execute-api:Invoke"
       /\ TheStatement.Resource = event.methodArn
       /\ TheStatement.Resource # ""
       /\ TheStatement.Effect = (IF CredentialAccepted THEN "Allow" ELSE "Deny")

\* a Deny decision was returned for the test-stage method
C5_Witness ==
    /\ DecisionReturned
    /\ event.methodArn = ArnTest
    /\ TheStatement.Effect = "Deny"
    /\ TheStatement.Resource = ArnTest

\* C6: the ingestion handler has started, or a put has been issued, for the
\* current request only if the authorizer completed for this request with a
\* decision that allows it; after a Deny or a thrown failure nothing is put.
C6_AuthorizationGatesIngestion ==
    (procPc # "idle" \/ putLog # <<>> \/ gwPc = "integration" \/ response # NoResponse)
    => /\ authSource # "none"
       /\ authResult.kind = "returned"
       /\ TheStatement.Effect = "Allow"
       /\ TheStatement.Resource = event.methodArn

\* a record was stored for a request the authorizer had allowed
C6_Witness ==
    /\ gwPc = "integration"
    /\ \E n \in DOMAIN putLog : putLog[n].outcome = "ok" /\ putLog[n].item \in table
    /\ authResult.kind = "returned"
    /\ TheStatement.Effect = "Allow"

\* C7: no decision is reused: every decision comes from a verification done
\* for this request (never from the result cache), so an allowed request
\* carries a credential that is valid now, and a credential allowed on the
\* previous request and expired since is denied.
C7_NoDecisionReuse ==
    AuthDone
    => /\ authSource = "lambda"
       /\ authAt = now
       /\ PolicyAllows(authResult, event)
          => (CredentialPresent /\ cognitoJwtVerifier_verify(Credential, now))

\* the credential allowed on the previous request has expired and is denied
C7_Witness ==
    /\ AuthDone
    /\ prevAllowed # <<>>
    /\ prevAllowed = IdentitySource(event)
    /\ CredentialPresent
    /\ now > Jwt(Credential).exp
    /\ ReturnedDenyAnonymous

C10_FailFastOnDecodeFailure ==
    (procPc # "idle" /\ Undecodable(procEvent))
    => /\ putLog = <<>>
       /\ procPc = "done" => (response.statusCode # 200 /\ "error" \in DOMAIN response.body)

----------------------------------------------------------------------------
(* Vocabulary of the ingestion properties: lines and contents stated from  *)
(* the positions of the line feeds and of the non-blank characters.        *)

\* the k-th smallest number of a set
Nth(S, k) == CHOOSE p \in S : Cardinality({q \in S : q < p}) = k - 1

\* the two ends of a text and the positions of its line feeds
LineBreaks(text) == {0, Len(text) + 1} \cup {i \in DOMAIN text : text[i] = LF}

\* the lines of a text: what lies between two consecutive breaks
InputLines(text) ==
    [k \in 1..(Cardinality(LineBreaks(text)) - 1) |->
        SubSeq(text, Nth(LineBreaks(text), k) + 1, Nth(LineBreaks(text), k + 1) - 1)]

\* a line of whitespace only (the empty line is one)
IsBlank(l) == \A i \in DOMAIN l : IsWhiteSpace(l[i])

\* a line from its first to its last non-whitespace character
Stripped(l) ==
    LET ink == {i \in DOMAIN l : ~IsWhiteSpace(l[i])}
    IN  IF ink = {} THEN <<>>
        ELSE SubSeq(l, Nth(ink, 1), Nth(ink, Cardinality(ink)))

\* the stripped non-blank lines of a text, in the order of the text
ExpectedContents(text) ==
    LET ls   == InputLines(text)
        kept == {k \in DOMAIN ls : ~IsBlank(ls[k])}
    IN  [n \in 1..Cardinality(kept) |-> Stripped(ls[Nth(kept, n)])]

Contents(items) == [k \in DOMAIN items |-> items[k].content]

\* the ingestion handler has been invoked for the current request
Ingesting == procPc # "idle"

\* the decoding of the current event threw (an absent body)
DecodeThrew == Ingesting /\ ~procEvent.body.present

\* the items of the table written by the current request: the identifiers
\* drawn for it are the last Len(processedData) ones
NewItems == {it \in table : it.id >= nextId - Len(processedData)}

IsSuccess(resp) ==
    resp.statusCode = 200 /\ DOMAIN resp.body = {"message"}
IsFailure(resp) ==
    resp.statusCode >= 300 /\ DOMAIN resp.body = {"error"}

\* C11: when the handler has finished, the response is 200 with a message
\* body if the payload was decodable and every decoded record was written,
\* and a non-2xx status with an error body if the payload could not be
\* decoded or if there were records and none of them was written.
C11_ResponseContract ==
    procPc = "done"
    => /\ (~Undecodable(procEvent) /\ \A k \in DOMAIN processedData : processedData[k] \in table)
          => IsSuccess(response)
       /\ (Undecodable(procEvent) \/ (processedData # <<>> /\ NewItems = {}))
          => IsFailure(response)

SucceededOnPayload == procPc = "done" /\ IsSuccess(response) /\ payload # <<>>

\* within one request: the records' identifiers differ from one another and
\* from those of the items stored before, and no record is put twice
PersistedAtMostOnce ==
    Ingesting
    => /\ \A j, k \in DOMAIN processedData : j # k => processedData[j].id # processedData[k].id
       /\ \A k \in DOMAIN processedData :
             \A it \in table : it.id = processedData[k].id => it = processedData[k]
       /\ \A k \in DOMAIN processedData : Cardinality(PutsOf(k)) <= 1

\* C13 (as stated): within one request the records' identifiers are distinct,
\* at most one put is issued per record, and after a request that ends in
\* success the storage holds exactly one new item per non-empty input line.
C13_Original ==
    /\ PersistedAtMostOnce
    /\ SucceededOnPayload
       => Cardinality(NewItems)
            = Cardinality({k \in DOMAIN InputLines(payload[1]) : InputLines(payload[1])[k] # <<>>})

\* C13 (amended): within one request the records' identifiers are distinct,
\* at most one put is issued per record, and after a request that ends in
\* success the storage holds exactly one new item per input line that is not
\* empty after trimming (a line of whitespace only gets no item), with that
\* line's trimmed text as content.
C13_PersistedExactlyOnce ==
    /\ PersistedAtMostOnce
    /\ SucceededOnPayload
       => /\ Cardinality(NewItems)
               = Cardinality({k \in DOMAIN InputLines(payload[1]) :
                                 ~IsBlank(InputLines(payload[1])[k])})
          /\ NewItems = Range(processedData)
          /\ Contents(processedData) = ExpectedContents(payload[1])

\* "a\n!\n\n  \n" was ingested with success: two items for its two non-blank
\* lines, none for the line of two spaces
C13_Witness ==
    /\ SucceededOnPayload
    /\ \E k \in DOMAIN InputLines(payload[1]) :
          InputLines(payload[1])[k] # <<>> /\ IsBlank(InputLines(payload[1])[k])
    /\ Cardinality(NewItems) = 2
    /\ Len(putLog) = 2

\* C14: for every payload, framed or not, the contents of the decoded records
\* are the payload's lines, each from its first to its last non-whitespace
\* character, without the lines that hold whitespace only, in the order of
\* the payload; no content is empty or starts or ends with whitespace.
C14_ContentsAreTrimmedNonBlankLines ==
    (Ingesting /\ payload # <<>>)
    => /\ Contents(processedData) = ExpectedContents(payload[1])
       /\ \A k \in DOMAIN processedData :
             LET c == processedData[k].content
             IN  /\ c # <<>>
                 /\ ~IsWhiteSpace(c[1]) /\ ~IsWhiteSpace(c[Len(c)])
                 /\ \A i \in DOMAIN c : c[i] # LF

\* "hello\nworld\n\n  \n" was decoded to exactly "hello" and "world"
C14_Witness ==
    /\ Ingesting
    /\ payload = <<HelloWorld>>
    /\ Contents(processedData) = <<SubSeq(HelloWorld, 1, 5), SubSeq(HelloWorld, 7, 11)>>

\* the contents of the records of the current request, as a set
ContentSet == {processedData[k].content : k \in DOMAIN processedData}

\* the contents the handler's decoding gives for the unframed text
UnframedContentSet(text) ==
    LET items == processTextFile(DecodeBody(Unframed(text)).fileContent, 1)
    IN  {items[k].content : k \in DOMAIN items}

\* the client text of the current request came framed by the gateway
FramedPayload == Ingesting /\ payload # <<>> /\ procEvent.isBase64Encoded

\* C15 (as stated): for every text made of non-empty lines, decoding its
\* base64 framing yields records whose content set is the set of the trimmed
\* lines, and is what decoding the same text unframed yields.
C15_Original ==
    (FramedPayload /\ \A k \in DOMAIN InputLines(payload[1]) : InputLines(payload[1])[k] # <<>>)
    => /\ ContentSet = {Stripped(InputLines(payload[1])[k]) : k \in DOMAIN InputLines(payload[1])}
       /\ ContentSet = UnframedContentSet(payload[1])

\* C15 (amended): for every text whose lines each hold at least one
\* non-whitespace character, decoding its base64 framing yields records whose
\* content set is the set of the trimmed lines, and is what decoding the same
\* text unframed yields.
C15_RoundTrip ==
    (FramedPayload /\ \A k \in DOMAIN InputLines(payload[1]) : ~IsBlank(InputLines(payload[1])[k]))
    => /\ ContentSet = {Stripped(InputLines(payload[1])[k]) : k \in DOMAIN InputLines(payload[1])}
       /\ ContentSet = UnframedContentSet(payload[1])

\* a framed text of two lines, one with a space to trim and one with a
\* two-byte character, came back as its two trimmed lines
C15_Witness ==
    /\ FramedPayload
    /\ Len(InputLines(payload[1])) = 2
    /\ \A k \in DOMAIN InputLines(payload[1]) : ~IsBlank(InputLines(payload[1])[k])
    /\ \E k \in DOMAIN InputLines(payload[1]) :
          Stripped(InputLines(payload[1])[k]) # InputLines(payload[1])[k]
    /\ \E k \in DOMAIN processedData : processedData[k].content = <<233>>
    /\ Cardinality(ContentSet) = 2

\* the client text of the current request is empty or holds whitespace only
BlankPayload == Ingesting /\ payload # <<>> /\ IsBlank(payload[1])

\* C16: an empty or all-blank payload, framed or not, decodes to no record;
\* no put is issued for it, nothing is added to the table, and the handler
\* ends with the success response, not with an error.
C16_BlankPayloadIsNoError ==
    BlankPayload
    => /\ processedData = <<>>
       /\ putLog = <<>>
       /\ NewItems = {}
       /\ procPc # "writing" => IsSuccess(response)
       /\ ~IsFailure(response)

\* a framed payload of one space ended in the success response with no put
C16_Witness ==
    /\ BlankPayload
    /\ payload[1] # <<>>
    /\ procEvent.isBase64Encoded
    /\ procPc = "done"
    /\ IsSuccess(response)
    /\ putLog = <<>>

\* the longest body the model submits to the handler
LargestBody ==
    CHOOSE n \in {Len(pe.body.chars) : pe \in ProcEvents} :
        \A pe \in ProcEvents : Len(pe.body.chars) <= n

\* C17: a payload larger than the configured maximum is rejected before any
\* line is split and before any put, and none of its records is persisted.
\* Whatever maximum below the longest submitted body is configured, this
\* requires that body to end in an error with no record and no put.
C17_OversizedPayloadRejected ==
    (Ingesting /\ procEvent.body.present /\ Len(procEvent.body.chars) = LargestBody)
    => /\ processedData = <<>>
       /\ putLog = <<>>
       /\ NewItems = {}
       /\ procPc = "done" => IsFailure(response)

\* C18: no entry of the authorizer handler's log holds the credential
\* presented in the request.
C18_CredentialNeverLogged ==
    (AuthDone /\ authSource = "lambda" /\ CredentialPresent)
    => \A n \in DOMAIN authLog : Credential \notin authLog[n].data

\* C19: the ingestion handler never ends by throwing: for every event (absent
\* body, body that is not base64, put that fails on any record) it is either
\* still at work or has returned a response with a status code and a JSON
\* body holding a message or an error; and while at work it can always go on.
C19_HandlerAlwaysReturns ==
    /\ procPc \in {"idle", "writing", "done"}
    /\ procPc = "writing" => (response = NoResponse /\ idx <= Len(processedData) + 1)
    /\ procPc = "done"
       => /\ response.statusCode \in {200, 500}
          /\ DOMAIN response.body \in {{"message"}, {"error"}}

\* an event without body ended in a returned error response
C19_Witness ==
    /\ procPc = "done"
    /\ ~procEvent.body.present
    /\ response = ErrorResponse
    /\ putLog = <<>>

\* C20: while a request is ingested the puts follow the decoded records in
\* order, one put per position, every put but the last has succeeded, and
\* the records stored for the request are exactly those before the loop
\* position: a prefix of the decoded sequence.  When a put fails at position
\* k the handler ends with the 500 response and exactly the k-1 preceding
\* records remain stored.
C20_StoredRecordsFormPrefix ==
    Ingesting
    => /\ \A n \in DOMAIN putLog : putLog[n].idx = n /\ putLog[n].item = processedData[n]
       /\ \A n \in 1..(Len(putLog) - 1) : putLog[n].outcome = "ok"
       /\ NewItems = {processedData[k] : k \in 1..(idx - 1)}
       /\ Cardinality(NewItems) = idx - 1
       /\ idx - 1 = Cardinality({n \in DOMAIN putLog : putLog[n].outcome = "ok"})
       /\ FailedPuts # {}
          => /\ procPc = "done"
             /\ response = ErrorResponse
             /\ Cardinality(NewItems) = putLog[Len(putLog)].idx - 1

\* the put of the third record failed: the first two stay stored, the
\* response is 500
C20_Witness ==
    /\ procPc = "done"
    /\ Len(putLog) = 3
    /\ putLog[3].outcome = "permanent"
    /\ Cardinality(NewItems) = 2
    /\ response.statusCode = 500

----------------------------------------------------------------------------
(* Vocabulary of the credential extraction, stated from the positions of   *)
(* the spaces in the header value.                                         *)

HasLowercaseHeader(ev) == ev.hasHeaders /\ "authorization" \in DOMAIN ev.headers

\* positions of the spaces of the lowercase authorization header's value
SpacesOf(ev) ==
    {i \in DOMAIN ev.headers["authorization"] : ev.headers["authorization"][i] = SP}

\* the second space-separated field exists and is not empty: something other
\* than a space follows the first space
HasSecondField(ev) ==
    /\ HasLowercaseHeader(ev)
    /\ SpacesOf(ev) # {}
    /\ LET p == Nth(SpacesOf(ev), 1)
       IN  p < Len(ev.headers["authorization"]) /\ (p + 1) \notin SpacesOf(ev)

SecondField(ev) == ev.headers["authorization"][Nth(SpacesOf(ev), 1) + 1]

\* what the gateway receives from one invocation of the authorizer
Verdict(r) ==
    IF r.kind = "returned" THEN [kind |-> "returned", response |-> r.response]
    ELSE [kind |-> "thrown", message |-> r.message]

LoggedMessages == {authLog[n].msg : n \in DOMAIN authLog}

\* C21: the handler reports the credential as absent exactly when the request
\* has no lowercase authorization header or the header's second
\* space-separated field is missing or empty; otherwise it verifies that
\* second field (Allow exactly when the verifier accepts it), and every
\* request with the same second field and the same method ARN, whatever its
\* scheme word and its other headers, gets the same verdict at that time.
\* (Stated when the handler has just answered; its answer does not change
\* afterwards.)
C21_VerdictDependsOnSecondFieldAndArn ==
    (gwPc = "authorized" /\ authSource = "lambda")
    => /\ ("No auth token found in request." \in LoggedMessages) <=> ~HasSecondField(event)
       /\ ~HasSecondField(event) => authResult.kind = "thrown"
       /\ HasSecondField(event)
          => /\ LoggedMessages \cap {"Token is valid:", "Token verification failed:"} # {}
             /\ authResult.kind = "returned"
                => (TheStatement.Effect = "Allow"
                    <=> cognitoJwtVerifier_verify(SecondField(event), authAt))
             /\ \A ev2 \in AuthEvents :
                   (/\ HasSecondField(ev2)
                    /\ SecondField(ev2) = SecondField(event)
                    /\ ev2.methodArn = event.methodArn)
                   => Verdict(handler(ev2, authAt)) = authResult

\* a token presented after the scheme word "Basic" was verified and allowed,
\* as it is after "Bearer"
C21_Witness ==
    /\ AuthDone /\ authSource = "lambda"
    /\ HasSecondField(event)
    /\ event.headers["authorization"][1] = "Basic"
    /\ authResult.kind = "returned"
    /\ TheStatement.Effect = "Allow"
    /\ authResult.response.principalId = "bob"

====
